---- MODULE Spec2Model ----
(***************************************************************************)
(* Flight state machines of the two serial CanSat simulators:              *)
(*   cansat_simulation.py       (class CanSatSimulator, method start)      *)
(*   cansat_simulation_2026.py  (class CanSatSimulator, method run)        *)
(* One of the two scripts is launched; its main loop alternates between    *)
(* reading at most one command line and the transmission step.             *)
(***************************************************************************)
EXTENDS Integers, Sequences, FiniteSets, TLC

\* Largest packet count at which a record is still built in the model.
MaxPacket == 82

\* ------------------------------------------------------------------------
\* Text helpers: Python str.strip, str.upper, str.split(","), "".join
\* ------------------------------------------------------------------------
IsSpace(c) == c \in {" ", "\t", "\r", "\n"}

RECURSIVE LStrip(_)
LStrip(s) ==
    IF Len(s) > 0 /\ IsSpace(SubSeq(s, 1, 1))
    THEN LStrip(SubSeq(s, 2, Len(s)))
    ELSE s

RECURSIVE RStrip(_)
RStrip(s) ==
    IF Len(s) > 0 /\ IsSpace(SubSeq(s, Len(s), Len(s)))
    THEN RStrip(SubSeq(s, 1, Len(s) - 1))
    ELSE s

Strip(s) == RStrip(LStrip(s))

UpperChar(c) ==
    CASE c = "a" -> "A" [] c = "b" -> "B" [] c = "c" -> "C" [] c = "d" -> "D"
      [] c = "e" -> "E" [] c = "f" -> "F" [] c = "g" -> "G" [] c = "h" -> "H"
      [] c = "i" -> "I" [] c = "j" -> "J" [] c = "k" -> "K" [] c = "l" -> "L"
      [] c = "m" -> "M" [] c = "n" -> "N" [] c = "o" -> "O" [] c = "p" -> "P"
      [] c = "q" -> "Q" [] c = "r" -> "R" [] c = "s" -> "S" [] c = "t" -> "T"
      [] c = "u" -> "U" [] c = "v" -> "V" [] c = "w" -> "W" [] c = "x" -> "X"
      [] c = "y" -> "Y" [] c = "z" -> "Z" [] OTHER -> c

RECURSIVE Upper(_)
Upper(s) ==
    IF Len(s) = 0 THEN s
    ELSE UpperChar(SubSeq(s, 1, 1)) \o Upper(SubSeq(s, 2, Len(s)))

\* s.split(","): the fields of s from position i on, cur being the field
\* collected so far
RECURSIVE SplitFrom(_, _, _)
SplitFrom(s, i, cur) ==
    IF i > Len(s) THEN <<cur>>
    ELSE IF SubSeq(s, i, i) = ","
         THEN <<cur>> \o SplitFrom(s, i + 1, "")
         ELSE SplitFrom(s, i + 1, cur \o SubSeq(s, i, i))

Split(s) == SplitFrom(s, 1, "")

\* "".join(p.strip() for p in parts[k:])
RECURSIVE JoinStripped(_, _)
JoinStripped(parts, k) ==
    IF k > Len(parts) THEN ""
    ELSE Strip(parts[k]) \o JoinStripped(parts, k + 1)

\* ------------------------------------------------------------------------
\* Checksum: buatcs and the byte folding that follows it
\* ------------------------------------------------------------------------
\* ord(char) for the characters that occur in command lines and records
Ascii == " !\"#$%&'()*+,-./0123456789:;<=>?@ABCDEFGHIJKLMNOPQRSTUVWXYZ[\\]^_"
AsciiLower == "abcdefghijklmnopqrstuvwxyz"

ord ==
    [c \in {SubSeq(Ascii, i, i) : i \in 1..Len(Ascii)} |->
        31 + CHOOSE i \in 1..Len(Ascii) : SubSeq(Ascii, i, i) = c]
    @@ [c \in {SubSeq(AsciiLower, i, i) : i \in 1..Len(AsciiLower)} |->
        96 + CHOOSE i \in 1..Len(AsciiLower) : SubSeq(AsciiLower, i, i) = c]

\* a text as the sequence of its character codes
Codes(s) == [i \in 1..Len(s) |-> ord[SubSeq(s, i, i)]]

\* data_str[:n]
Slice(data_str, n) ==
    SubSeq(data_str, 1, IF Len(data_str) < n THEN Len(data_str) ELSE n)

\* the position at which the loop of buatcs ends: the first null character
\* (it is added, then the loop breaks), or the last character
last_summed(chars) ==
    LET nulls == {i \in 1..Len(chars) : chars[i] = 0} IN
    IF nulls = {} THEN Len(chars)
    ELSE CHOOSE i \in nulls : \A j \in nulls : i <= j

\* hasil after the characters lo..hi have been added
RECURSIVE sum_codes(_, _, _)
sum_codes(chars, lo, hi) ==
    IF lo > hi THEN 0
    ELSE IF lo = hi THEN chars[lo]
    ELSE sum_codes(chars, lo, (lo + hi) \div 2)
         + sum_codes(chars, (lo + hi) \div 2 + 1, hi)

\* the loop of buatcs over chars (character codes)
sum_chars(chars) == sum_codes(chars, 1, last_summed(chars))

\* characters summed by buatcs of cansat_simulation.py
SumLimit == 200
\* characters summed by buatcs of telemetry_generator.py
SumLimitGenerator == 150

\* buatcs that sums the whole line
buatcs_whole(data_str) == sum_chars(data_str) % 65536

\* CanSatSimulator.buatcs of cansat_simulation.py (hasil & 0xFFFF)
buatcs(data_str) == sum_chars(Slice(data_str, SumLimit)) % 65536

\* buatcs of telemetry_generator.py that stops fifty characters sooner
buatcs_generator_short(data_str) ==
    sum_chars(Slice(data_str, SumLimitGenerator - 50)) % 65536

\* buatcs of telemetry_generator.py
buatcs_generator(data_str) ==
    sum_chars(Slice(data_str, SumLimitGenerator)) % 65536

\* cs1 = cst & 0xFF and cs2 = (cst >> 8) & 0xFF
cs1_of(cst) == cst % 256
cs2_of(cst) == (cst \div 256) % 256

\* the two bytes added without the complement
checksum_of_plain(cst) == (cs1_of(cst) + cs2_of(cst)) % 256

\* checksum = ~(cs1 + cs2) & 0xFF, ~x being -x - 1
checksum_of(cst) == (-(cs1_of(cst) + cs2_of(cst)) - 1) % 256

\* what is printed by the checksum code for one line
checksum_log(cst) ==
    [ cst |-> cst, cs1 |-> cs1_of(cst), cs2 |-> cs2_of(cst),
      checksum |-> checksum_of(cst) ]

\* ------------------------------------------------------------------------
\* Inputs: the lines the ground station may send
\* ------------------------------------------------------------------------
InputLines ==
    { "CMD,1,CX,ON", "CMD,1,CX,OFF", "CMD,1,FLY", "CMD,1,CAL",
      "CMD,1,SIM,ENABLE", "CMD,1,SIM,ACTIVATE", "CMD,1,SIM,DISABLE",
      "CMD,1,ST,GPS", "CMD,1,ST,12:00:00", "CMD,1,MEC,WIRE,ON", "CMD,1,xyz", "CMD,1,CX",
      "CMD,1,SET_TARGET,1,2", "cmd,1, fly \r\n", "CMD,1", "FLY" }

Scripts == {"cansat_simulation", "cansat_simulation_2026"}

STATES == <<"LAUNCH_PAD", "ASCENT", "APOGEE", "DESCENT", "PROBE_RELEASE",
            "PAYLOAD_RELEASE", "LANDED">>

\* altitude_values of the 2026 profile of cansat_simulation.py, in tenths of
\* a metre
altitude_values ==
    [ LAUNCH_PAD      |-> <<0, 5>>,
      ASCENT          |-> <<100, 7000>>,
      APOGEE          |-> <<6800, 7200>>,
      DESCENT         |-> <<3000, 6800>>,
      PROBE_RELEASE   |-> <<1000, 3000>>,
      PAYLOAD_RELEASE |-> <<100, 1000>>,
      LANDED          |-> <<0, 10>> ]

VARIABLES
    script,             \* which of the two programs was launched
    pc,                 \* position in the main loop: "receive" | "transmit"
    data,               \* line read in this iteration ("" if none)
    out,                \* records written to the port by the last step
    tick,               \* the last step ran a transmission tick (in
                        \* cansat_simulation.py: it passed the one-second gate)
    write_error,        \* the port write of the last step raised
    \* cansat_simulation.py
    telemetry_on, flight_mode, simulation_mode, packet_count, state, cmd_echo,
    \* cansat_simulation_2026.py
    telemetry_enabled, flight_mode_26, simulation_enabled, packet_count_26,
    cmd_echo_26,
    \* the checksum code run on its own
    data_str,           \* two lines handed to the checksum code, as
                        \* character codes
    cs_sim,             \* what cansat_simulation.py computed for them
                        \* (<<>> before it ran)
    cs_gen,             \* what telemetry_generator.py computed for them
    \* the GPS code run on its own
    gps,                \* radius, offset and fix of one call (<<>> before)
    \* telemetry_generator.py
    MISSION_YEAR,       \* the year the generator is configured with
    config,             \* what load_constants returned (<<>> before)
    i_csv,              \* index i of the generation loop
    row,                \* the row of the last iteration (<<>> before)
    raised,             \* a dictionary lookup raised KeyError
    \* what an observer of the port has seen
    station,            \* what the ground station sends: "any" line, or
                        \* "fly_only" (FLY once and nothing after it)
    hist,               \* the last record written and what happened since
    \* the two scripts side by side
    out_26              \* records written by cansat_simulation_2026.py in
                        \* the last step, out holding those of
                        \* cansat_simulation.py

vars_sim == <<telemetry_on, flight_mode, simulation_mode, packet_count,
              state, cmd_echo>>
vars_26 == <<telemetry_enabled, flight_mode_26, simulation_enabled,
             packet_count_26, cmd_echo_26>>
vars_cs == <<data_str, cs_sim, cs_gen>>
vars_gen == <<MISSION_YEAR, config, i_csv, row, raised>>
vars_fn == <<gps, vars_gen>>
vars_hist == <<station, hist>>
vars == <<script, pc, data, out, tick, write_error, vars_sim, vars_26,
          vars_cs, vars_fn, vars_hist, out_26>>

\* ------------------------------------------------------------------------
\* Rendering: str() of an int and of a rounded float, "," joins
\* ------------------------------------------------------------------------
Digit(d) == SubSeq("0123456789", d + 1, d + 1)

\* str(n) for an int n >= 0
RECURSIVE NatText(_)
NatText(n) == IF n < 10 THEN Digit(n) ELSE NatText(n \div 10) \o Digit(n % 10)

\* n written with exactly width digits (f"{n:02d}" for width 2)
RECURSIVE PadText(_, _)
PadText(n, width) ==
    IF width = 0 THEN "" ELSE PadText(n \div 10, width - 1) \o Digit(n % 10)

\* the digits after the point of a float with places decimals: trailing
\* zeros are dropped, one digit is kept
RECURSIVE FracText(_, _)
FracText(f, places) ==
    IF places = 1 THEN Digit(f)
    ELSE IF f % 10 = 0 THEN FracText(f \div 10, places - 1)
    ELSE PadText(f, places)

Pow10(places) == IF places = 1 THEN 10 ELSE IF places = 2 THEN 100
                 ELSE IF places = 4 THEN 10000 ELSE 1000000

\* str(x) for the float x = n / 10^places, as round(.., places) returns it
FloatText(n, places) ==
    LET a == IF n < 0 THEN -n ELSE n IN
    (IF n < 0 THEN "-" ELSE "")
    \o NatText(a \div Pow10(places)) \o "."
    \o FracText(a % Pow10(places), places)

\* ",".join(fields[k:])
RECURSIVE JoinComma(_, _)
JoinComma(fields, k) ==
    IF k > Len(fields) THEN ""
    ELSE IF k = Len(fields) THEN fields[k]
    ELSE fields[k] \o "," \o JoinComma(fields, k + 1)

\* ------------------------------------------------------------------------
\* Sensor values. A tick draws from the random generator and reads the
\* clock; the model lets every uniform(a, b) of one tick return its lower
\* end or every one its upper end. Values are integers in units of the
\* rounding step (tenths, hundredths, 1e-4 or 1e-6).
\* ------------------------------------------------------------------------
Draws == {"low", "high"}

uniform(a, b, u) == IF u = "low" THEN a ELSE b

\* round(x, ..) of x = num / den in rounding steps: the nearest integer; a
\* tie of the exact value may go either way in floating point
Rounded(num, den) ==
    IF 2 * (num % den) < den THEN {num \div den}
    ELSE IF 2 * (num % den) > den THEN {num \div den + 1}
    ELSE {num \div den, num \div den + 1}

\* 7000 * (t / 30) ** 1.5 to the nearest integer (tenths of a metre): the
\* n with (2n - 1)^2 <= 4 * 49000000 * t^3 / 27000 < (2n + 1)^2
Ascent ==
    [t \in 0..30 |->
        LET q == 7259 * t * t * t + (7 * t * t * t) \div 27 IN
        CHOOSE n \in 0..7000 :
            /\ n = 0 \/ (2 * n - 1) * (2 * n - 1) <= q
            /\ q < (2 * n + 1) * (2 * n + 1)]

\* get_flight_altitude / get_altitude: the altitudes (tenths of a metre) the
\* call can return at packet count t with draw u
get_flight_altitude(fm, t, u) ==
    IF ~fm THEN {uniform(0, 5, u)}
    ELSE IF t <= 30 THEN
        LET a == Ascent[t] + uniform(-50, 50, u) IN {IF a < 0 THEN 0 ELSE a}
    ELSE IF t <= 40 THEN {7000 + uniform(-100, 100, u)}
    ELSE IF t <= 80 THEN
        \* 700 * (1 - ((t - 40) / 40) ** 2) + uniform(-8, 8), in eighths of
        \* a tenth
        LET e == 56000 - 35 * (t - 40) * (t - 40) + 8 * uniform(-80, 80, u)
        IN  IF e <= 0 THEN {0} ELSE Rounded(e, 8)
    ELSE {uniform(0, 10, u)}

\* MAX_DISTANCE_KM of cansat_simulation.py, in millimetres
MAX_DISTANCE_KM == 2000000
\* max_drift_km of cansat_simulation_2026.py, in millimetres
max_drift_km == 2000000

\* a drift that is not capped
drift_factor_unbounded(t) == t

\* drift_factor = min(self.packet_count / 100.0, 1.0), in hundredths
drift_factor(t) == IF t < 100 THEN t ELSE 100

\* radius of random_coordinates times 111, in millimetres
radius(fm, t) ==
    IF fm THEN (MAX_DISTANCE_KM * drift_factor(t)) \div 100 ELSE 100000

\* radius of get_gps_coordinates, in 1e-6 degrees (0.0001 when not flying)
radius_26(fm, t) ==
    IF fm THEN (2 * ((max_drift_km * drift_factor(t)) \div 100) + 111) \div 222
    ELSE 100

\* BASE_LAT and base_lat, in 1e-6 degrees
BASE_LAT == -7275764

\* random_coordinates of cansat_simulation.py, in 1e-4 degrees: angle is 0
\* or 2 pi, so lat_offset = offset and lon_offset rounds to nothing; offset
\* is 0 or the radius, (2.0 * min(t / 100, 1)) / 111 in flight and
\* 0.1 / 111 on the ground
random_coordinates(fm, t, u) ==
    LET offset == uniform(0, radius(fm, t), u)
    IN  << (BASE_LAT * 111 + offset + 5550) \div 11100, 1127943 >>

\* get_gps_coordinates of cansat_simulation_2026.py, in 1e-6 degrees
get_gps_coordinates(fm, t, u) ==
    LET offset == uniform(0, radius_26(fm, t), u)
    IN  << BASE_LAT + offset, 112794317 >>

\* current_time.strftime("%H:%M:%S"): what the clock reads at this tick
strftime(u) == IF u = "low" THEN "12:00:00" ELSE "23:59:59"

\* get_mission_time: whole seconds since mission_start (set by whatever
\* enabled the telemetry), as HH:MM:SS
get_mission_time(u) ==
    LET elapsed == uniform(0, 3725, u) IN
    PadText(elapsed \div 3600, 2) \o ":" \o PadText((elapsed % 3600) \div 60, 2)
    \o ":" \o PadText(elapsed % 60, 2)

get_pg_state(fm, t) ==
    IF ~fm THEN "_PG_CRUISE"
    ELSE IF t <= 40 THEN "_PG_CRUISE"
    ELSE IF t <= 55 THEN "_PG_APPROACH"
    ELSE IF t <= 65 THEN "_PG_LOITER"
    ELSE IF t <= 70 THEN "_PG_FINAL"
    ELSE IF t <= 75 THEN "_PG_FLARE"
    ELSE "_PG_LANDED"

\* get_fieldnames(2026) of telemetry_generator.py
get_fieldnames ==
    << "TEAM_ID", "MISSION_TIME", "PACKET_COUNT", "MODE", "STATE",
       "ALTITUDE", "TEMPERATURE", "PRESSURE", "VOLTAGE", "CURRENT",
       "GYRO_R", "GYRO_P", "GYRO_Y", "ACCEL_R", "ACCEL_P", "ACCEL_Y",
       "GPS_TIME", "GPS_ALTITUDE", "GPS_LATITUDE", "GPS_LONGITUDE",
       "GPS_SATS", "CMD_ECHO", "", "CHECKSUM" >>

\* the header line sent by send_header of cansat_simulation_2026.py
header ==
    "TEAM_ID,MISSION_TIME,PACKET_COUNT,MODE,STATE,ALTITUDE,TEMPERATURE,PRESSURE,VOLTAGE,CURRENT,"
    \o "GYRO_R,GYRO_P,GYRO_Y,ACCEL_R,ACCEL_P,ACCEL_Y,GPS_TIME,GPS_ALTITUDE,"
    \o "GPS_LATITUDE,GPS_LONGITUDE,GPS_SATS,CMD_ECHO,,ROLL,PITCH,YAW,HEADING_ERROR,PG_STATE,"
    \o "DISTANCE_TO_TARGET,GROUND_DETECTION_ALTITUDE"

\* ------------------------------------------------------------------------
\* cansat_simulation.py
\* ------------------------------------------------------------------------
\* handle_cx with an OFF branch that also restarts the packet counter
handle_cx_off_resets(on_off) ==
    IF on_off = "ON"
    THEN /\ telemetry_on' = TRUE
         /\ flight_mode' = FALSE
         /\ packet_count' = 0
         /\ UNCHANGED simulation_mode
    ELSE IF on_off = "OFF"
    THEN /\ telemetry_on' = FALSE
         /\ flight_mode' = FALSE
         /\ packet_count' = 0
         /\ UNCHANGED simulation_mode
    ELSE UNCHANGED <<telemetry_on, flight_mode, packet_count, simulation_mode>>

\* handle_cx with an OFF branch that forgets to leave flight mode
handle_cx_off_keeps_flight(on_off) ==
    IF on_off = "ON"
    THEN /\ telemetry_on' = TRUE
         /\ flight_mode' = FALSE
         /\ packet_count' = 0
         /\ UNCHANGED simulation_mode
    ELSE IF on_off = "OFF"
    THEN /\ telemetry_on' = FALSE
         /\ UNCHANGED <<flight_mode, packet_count, simulation_mode>>
    ELSE UNCHANGED <<telemetry_on, flight_mode, packet_count, simulation_mode>>

handle_cx(on_off) ==
    IF on_off = "ON"
    THEN /\ telemetry_on' = TRUE
         /\ flight_mode' = FALSE
         /\ packet_count' = 0
         /\ UNCHANGED simulation_mode
    ELSE IF on_off = "OFF"
    THEN /\ telemetry_on' = FALSE
         /\ flight_mode' = FALSE
         /\ UNCHANGED <<packet_count, simulation_mode>>
    ELSE UNCHANGED <<telemetry_on, flight_mode, packet_count, simulation_mode>>

\* handle_fly without the packet counter restart
handle_fly_keeps_count ==
    /\ telemetry_on' = (IF ~telemetry_on THEN TRUE ELSE telemetry_on)
    /\ flight_mode' = TRUE
    /\ UNCHANGED <<packet_count, simulation_mode>>

\* handle_fly without the automatic telemetry enable
handle_fly_keeps_telemetry ==
    /\ flight_mode' = TRUE
    /\ packet_count' = 0
    /\ UNCHANGED <<telemetry_on, simulation_mode>>

handle_fly ==
    /\ telemetry_on' = (IF ~telemetry_on THEN TRUE ELSE telemetry_on)
    /\ flight_mode' = TRUE
    /\ packet_count' = 0
    /\ UNCHANGED simulation_mode

\* handle_st that restarts the packet counter with the mission clock
handle_st_restarts(time_value) ==
    /\ packet_count' = 0
    /\ UNCHANGED <<telemetry_on, flight_mode, simulation_mode>>

handle_st(time_value) ==
    UNCHANGED <<telemetry_on, flight_mode, packet_count, simulation_mode>>

\* handle_sim whose ACTIVATE branch switches simulation mode on
handle_sim_activate_enables(mode) ==
    /\ simulation_mode' = (IF mode = "ENABLE" THEN TRUE
                           ELSE IF mode = "ACTIVATE" THEN TRUE
                           ELSE IF mode = "DISABLE" THEN FALSE
                           ELSE simulation_mode)
    /\ UNCHANGED <<telemetry_on, flight_mode, packet_count>>

handle_sim(mode) ==
    /\ simulation_mode' = (IF mode = "ENABLE" THEN TRUE
                           ELSE IF mode = "ACTIVATE" THEN simulation_mode
                           ELSE IF mode = "DISABLE" THEN FALSE
                           ELSE simulation_mode)
    /\ UNCHANGED <<telemetry_on, flight_mode, packet_count>>

handle_cal ==
    /\ packet_count' = 0
    /\ UNCHANGED <<telemetry_on, flight_mode, simulation_mode>>

\* parts[2].strip().upper() and parts[3].strip().upper() (fields counted
\* from 0 in the source, from 1 here)
cmd_main_of(parts) == Upper(Strip(parts[3]))
cmd_tail_of(parts) == IF Len(parts) >= 4 THEN Upper(Strip(parts[4])) ELSE ""

\* an echo that keeps the delimiter between keyword and argument
echo_of_delimited(parts) ==
    IF Len(parts) >= 4
    THEN Strip(parts[3]) \o "," \o Strip(parts[4])
    ELSE Strip(parts[3])

echo_of(parts) ==
    IF cmd_main_of(parts) = "CX" /\ cmd_tail_of(parts) # ""
    THEN cmd_main_of(parts) \o cmd_tail_of(parts)
    ELSE JoinStripped(parts, 3)

\* a rejection that clears the command echo
invalid_command_clears_echo ==
    /\ cmd_echo' = ""
    /\ UNCHANGED <<telemetry_on, flight_mode, simulation_mode, packet_count,
                   state>>

\* "Invalid command format": return
invalid_command == UNCHANGED vars_sim

\* an unknown command that restarts the packet counter
unknown_command_resets ==
    /\ packet_count' = 0
    /\ UNCHANGED <<telemetry_on, flight_mode, simulation_mode>>

\* "Unknown command"
unknown_command ==
    UNCHANGED <<telemetry_on, flight_mode, packet_count, simulation_mode>>

process_command(d) ==
    LET parts == Split(d) IN
    IF Len(parts) < 3
    THEN invalid_command
    ELSE LET cmd_main == cmd_main_of(parts)
             cmd_tail == cmd_tail_of(parts)
         IN /\ cmd_echo' = echo_of(parts)
            /\ UNCHANGED state
            /\ IF cmd_main = "CX" THEN handle_cx(cmd_tail)
               ELSE IF cmd_main = "FLY" THEN handle_fly
               ELSE IF cmd_main = "ST" THEN handle_st(cmd_tail)
               ELSE IF cmd_main = "SIM" THEN handle_sim(cmd_tail)
               ELSE IF cmd_main = "CAL" THEN handle_cal
               ELSE unknown_command

\* receive_data: in_waiting = 0 (no line), or one line is read, decoded and
\* stripped, and dispatched when it is not empty
receive_data_from(lines) ==
    /\ script = "cansat_simulation"
    /\ pc = "receive"
    /\ \/ /\ data' = ""
          /\ UNCHANGED vars_sim
       \/ \E line \in lines :
             /\ data' = Strip(line)
             /\ IF Strip(line) # ""
                THEN process_command(Strip(line))
                ELSE UNCHANGED vars_sim
    /\ pc' = "transmit"
    /\ out' = <<>>
    /\ tick' = FALSE
    /\ write_error' = FALSE
    /\ UNCHANGED <<script, vars_26, vars_cs, vars_fn>>

\* first half of one iteration of start's loop, any line arriving
receive_data == receive_data_from(InputLines) /\ UNCHANGED <<vars_hist, out_26>>

\* update_flight_state that names the powered part of the ascent on its own
update_flight_state_boost(fm, t) ==
    IF ~fm THEN "LAUNCH_PAD"
    ELSE IF t <= 5 THEN "LAUNCH_PAD"
    ELSE IF t <= 10 THEN "BOOST"
    ELSE IF t <= 30 THEN "ASCENT"
    ELSE IF t <= 40 THEN "APOGEE"
    ELSE IF t <= 65 THEN "DESCENT"
    ELSE IF t <= 70 THEN "PROBE_RELEASE"
    ELSE IF t <= 75 THEN "PAYLOAD_RELEASE"
    ELSE "LANDED"

\* update_flight_state with the two release phases exchanged
update_flight_state_swapped(fm, t) ==
    IF ~fm THEN "LAUNCH_PAD"
    ELSE IF t <= 5 THEN "LAUNCH_PAD"
    ELSE IF t <= 30 THEN "ASCENT"
    ELSE IF t <= 40 THEN "APOGEE"
    ELSE IF t <= 65 THEN "DESCENT"
    ELSE IF t <= 70 THEN "PAYLOAD_RELEASE"
    ELSE IF t <= 75 THEN "PROBE_RELEASE"
    ELSE "LANDED"

update_flight_state(fm, t) ==
    IF ~fm THEN "LAUNCH_PAD"
    ELSE IF t <= 5 THEN "LAUNCH_PAD"
    ELSE IF t <= 30 THEN "ASCENT"
    ELSE IF t <= 40 THEN "APOGEE"
    ELSE IF t <= 65 THEN "DESCENT"
    ELSE IF t <= 70 THEN "PROBE_RELEASE"
    ELSE IF t <= 75 THEN "PAYLOAD_RELEASE"
    ELSE "LANDED"

\* a packet whose MODE column is always F
packet_mode_fixed(st) ==
    [ TEAM_ID      |-> "3121",
      PACKET_COUNT |-> packet_count,
      MODE         |-> "F",
      FLIGHT_STATE |-> st,
      CMD_ECHO     |-> cmd_echo ]

\* a packet that always carries the default command echo
packet_echo_default(st) ==
    [ TEAM_ID      |-> "3121",
      PACKET_COUNT |-> packet_count,
      MODE         |-> IF flight_mode THEN "F" ELSE "S",
      FLIGHT_STATE |-> st,
      CMD_ECHO     |-> "CXON" ]

\* the packet built by transmit_telemetry (the fields the flight state
\* machine decides; FLIGHT_STATE is the STATE column)
packet(st) ==
    [ TEAM_ID      |-> "3121",
      PACKET_COUNT |-> packet_count,
      MODE         |-> IF flight_mode THEN "F" ELSE "S",
      FLIGHT_STATE |-> st,
      CMD_ECHO     |-> cmd_echo ]

\* the text of the packet: the fields of p and the sensor values of draw u,
\* each followed by a comma, and one more comma after the echo
packet_text(p, u, altitude) ==
    LET dynamic == flight_mode
                   /\ p.FLIGHT_STATE \in {"ASCENT", "APOGEE", "DESCENT"}
        gyro == IF dynamic THEN uniform(-5000, 5000, u)
                ELSE uniform(-200, 200, u)
        accel == IF dynamic THEN uniform(-1000, 1000, u)
                 ELSE uniform(-50, 50, u)
        accel_y == IF dynamic THEN uniform(-1000, 1000, u)
                   ELSE uniform(950, 1050, u)
        coordinates == random_coordinates(flight_mode, packet_count, u)
    IN  JoinComma(<< p.TEAM_ID, strftime(u), NatText(p.PACKET_COUNT), p.MODE,
                     p.FLIGHT_STATE,
                     FloatText(altitude, 1),
                     FloatText(uniform(50, 350, u), 1),
                     FloatText(uniform(850, 1030, u), 1),
                     FloatText(uniform(35, 42, u), 1),
                     FloatText(uniform(10, 50, u), 2),
                     FloatText(gyro, 2), FloatText(gyro, 2),
                     FloatText(gyro, 2),
                     FloatText(accel, 2), FloatText(accel, 2),
                     FloatText(accel_y, 2),
                     strftime(u),
                     FloatText(altitude + uniform(-100, 100, u), 1),
                     FloatText(coordinates[1], 4),
                     FloatText(coordinates[2], 4),
                     NatText(uniform(4, 12, u)),
                     p.CMD_ECHO >>, 1) \o ",,"

\* full_packet: the packet with its checksum appended (TEXT), next to the
\* fields it was built from
full_packet(p, u, altitude) ==
    LET text == packet_text(p, u, altitude)
        checksum == checksum_of(buatcs(Codes(text)))
    IN  [ TEAM_ID      |-> p.TEAM_ID,
          PACKET_COUNT |-> p.PACKET_COUNT,
          MODE         |-> p.MODE,
          FLIGHT_STATE |-> p.FLIGHT_STATE,
          CMD_ECHO     |-> p.CMD_ECHO,
          ALTITUDE     |-> altitude,
          CHECKSUM     |-> checksum,
          TEXT         |-> text \o NatText(checksum) ]

\* the landing test taken one packet early
flight_ended_early(fm, st, count) == fm /\ st = "LANDED" /\ count >= 80

\* "Stop flight if landed"
flight_ended(fm, st, count) == fm /\ st = "LANDED" /\ count > 80

\* transmit_telemetry: elapsed is the outcome of the one-second gate
transmit_telemetry ==
    \E elapsed \in BOOLEAN :
        /\ tick' = elapsed
        /\ IF ~elapsed
           THEN /\ out' = <<>>
                /\ write_error' = FALSE
                /\ UNCHANGED vars_sim
           ELSE
             LET st == update_flight_state(flight_mode, packet_count) IN
             /\ state' = st
             /\ IF flight_ended(flight_mode, st, packet_count)
                THEN /\ flight_mode' = FALSE
                     /\ telemetry_on' = FALSE
                     /\ out' = <<>>
                     /\ write_error' = FALSE
                     /\ UNCHANGED <<packet_count, simulation_mode, cmd_echo>>
                ELSE /\ packet_count < MaxPacket
                     /\ \E u \in Draws, written \in BOOLEAN :
                        \E altitude \in
                              get_flight_altitude(flight_mode, packet_count, u) :
                           \* serial_port.write raises, or not
                           /\ out' = IF written
                                     THEN <<full_packet(packet(st), u, altitude)>>
                                     ELSE <<>>
                           /\ write_error' = ~written
                     /\ packet_count' = packet_count + 1
                     /\ UNCHANGED <<telemetry_on, flight_mode,
                                    simulation_mode, cmd_echo>>

\* a loop that calls transmit_telemetry whatever telemetry_on is
start_unguarded ==
    /\ script = "cansat_simulation"
    /\ pc = "transmit"
    /\ transmit_telemetry
    /\ pc' = "receive"
    /\ data' = ""
    /\ UNCHANGED <<script, vars_26, vars_cs, vars_fn>>
    /\ UNCHANGED <<vars_hist, out_26>>

\* second half of one iteration of start's loop
start_loop ==
    /\ script = "cansat_simulation"
    /\ pc = "transmit"
    /\ IF telemetry_on
       THEN transmit_telemetry
       ELSE /\ out' = <<>>
            /\ tick' = FALSE
            /\ write_error' = FALSE
            /\ UNCHANGED vars_sim
    /\ pc' = "receive"
    /\ data' = ""
    /\ UNCHANGED <<script, vars_26, vars_cs, vars_fn>>

start == start_loop /\ UNCHANGED <<vars_hist, out_26>>

\* ------------------------------------------------------------------------
\* cansat_simulation_2026.py
\* ------------------------------------------------------------------------
\* process_command whose CX,OFF leaves the flight mode alone
command_CX_26_keeps_flight(parts) ==
    IF Len(parts) >= 4
    THEN LET mode == Upper(parts[4]) IN
         IF mode = "ON"
         THEN /\ telemetry_enabled' = TRUE
              /\ packet_count_26' = 0
              /\ cmd_echo_26' = "CXON"
              /\ UNCHANGED <<flight_mode_26, simulation_enabled>>
         ELSE IF mode = "OFF"
         THEN /\ telemetry_enabled' = FALSE
              /\ cmd_echo_26' = "CXOFF"
              /\ UNCHANGED <<flight_mode_26, packet_count_26,
                             simulation_enabled>>
         ELSE UNCHANGED vars_26
    ELSE UNCHANGED vars_26

\* the CX branch of process_command
command_CX_26(parts) ==
    IF Len(parts) >= 4
    THEN LET mode == Upper(parts[4]) IN
         IF mode = "ON"
         THEN /\ telemetry_enabled' = TRUE
              /\ packet_count_26' = 0
              /\ cmd_echo_26' = "CXON"
              /\ UNCHANGED <<flight_mode_26, simulation_enabled>>
         ELSE IF mode = "OFF"
         THEN /\ telemetry_enabled' = FALSE
              /\ flight_mode_26' = FALSE
              /\ cmd_echo_26' = "CXOFF"
              /\ UNCHANGED <<packet_count_26, simulation_enabled>>
         ELSE UNCHANGED vars_26
    ELSE UNCHANGED vars_26

command_FLY_26 ==
    /\ flight_mode_26' = TRUE
    /\ telemetry_enabled' = TRUE
    /\ packet_count_26' = 0
    /\ cmd_echo_26' = "FLY"
    /\ UNCHANGED simulation_enabled

\* a calibration that also leaves flight mode
command_CAL_26_lands ==
    /\ packet_count_26' = 0
    /\ cmd_echo_26' = "CAL"
    /\ flight_mode_26' = FALSE
    /\ UNCHANGED <<telemetry_enabled, simulation_enabled>>

command_CAL_26 ==
    /\ packet_count_26' = 0
    /\ cmd_echo_26' = "CAL"
    /\ UNCHANGED <<telemetry_enabled, flight_mode_26, simulation_enabled>>

command_SIM_26(parts) ==
    IF Len(parts) >= 4
    THEN LET sim_mode == Upper(parts[4]) IN
         IF sim_mode = "ENABLE"
         THEN /\ simulation_enabled' = TRUE
              /\ cmd_echo_26' = "SIMENABLE"
              /\ UNCHANGED <<telemetry_enabled, flight_mode_26,
                             packet_count_26>>
         ELSE IF sim_mode = "DISABLE"
         THEN /\ simulation_enabled' = FALSE
              /\ cmd_echo_26' = "SIMDISABLE"
              /\ UNCHANGED <<telemetry_enabled, flight_mode_26,
                             packet_count_26>>
         ELSE UNCHANGED vars_26
    ELSE UNCHANGED vars_26

command_SET_TARGET_26(parts) ==
    IF Len(parts) >= 5
    THEN /\ cmd_echo_26' = "SETTARGET"
         /\ UNCHANGED <<telemetry_enabled, flight_mode_26,
                        simulation_enabled, packet_count_26>>
    ELSE UNCHANGED vars_26

command_unknown_26(command) ==
    /\ cmd_echo_26' = command
    /\ UNCHANGED <<telemetry_enabled, flight_mode_26, simulation_enabled,
                   packet_count_26>>

\* fewer than 3 fields: return
invalid_command_26 == UNCHANGED vars_26

process_command_26(cmd_line) ==
    LET parts == Split(Strip(cmd_line)) IN
    IF Len(parts) < 3
    THEN invalid_command_26
    ELSE IF parts[1] # "CMD"
    THEN UNCHANGED vars_26
    ELSE LET command == Upper(parts[3]) IN
         IF command = "CX" THEN command_CX_26(parts)
         ELSE IF command = "FLY" THEN command_FLY_26
         ELSE IF command = "CAL" THEN command_CAL_26
         ELSE IF command = "SIM" THEN command_SIM_26(parts)
         ELSE IF command = "SET_TARGET" THEN command_SET_TARGET_26(parts)
         ELSE command_unknown_26(command)

\* check_commands: in_waiting = 0 (no line), or one line is read, decoded
\* and stripped, and dispatched when it is not empty
check_commands_from(lines) ==
    /\ script = "cansat_simulation_2026"
    /\ pc = "receive"
    /\ \/ /\ data' = ""
          /\ UNCHANGED vars_26
       \/ \E line \in lines :
             /\ data' = Strip(line)
             /\ IF Strip(line) # ""
                THEN process_command_26(Strip(line))
                ELSE UNCHANGED vars_26
    /\ pc' = "transmit"
    /\ out' = <<>>
    /\ tick' = FALSE
    /\ write_error' = FALSE
    /\ UNCHANGED <<script, vars_sim, vars_cs, vars_fn>>

\* first half of one iteration of run's loop, any line arriving
check_commands ==
    check_commands_from(InputLines) /\ UNCHANGED <<vars_hist, out_26>>

get_flight_state(fm, t) ==
    IF ~fm THEN "LAUNCH_PAD"
    ELSE IF t <= 5 THEN "LAUNCH_PAD"
    ELSE IF t <= 30 THEN "ASCENT"
    ELSE IF t <= 40 THEN "APOGEE"
    ELSE IF t <= 65 THEN "DESCENT"
    ELSE IF t <= 70 THEN "PROBE_RELEASE"
    ELSE IF t <= 75 THEN "PAYLOAD_RELEASE"
    ELSE "LANDED"

\* the CSV line built by generate_telemetry (the fields the flight state
\* machine decides; FLIGHT_STATE is the STATE column)
generate_telemetry ==
    [ TEAM_ID      |-> "1064",
      PACKET_COUNT |-> packet_count_26,
      MODE         |-> IF flight_mode_26 THEN "F" ELSE "S",
      FLIGHT_STATE |-> get_flight_state(flight_mode_26, packet_count_26),
      CMD_ECHO     |-> cmd_echo_26 ]

\* csv_line: the text of the line built by generate_telemetry from the
\* fields of p and the sensor values of draw u
csv_line(p, u, altitude) ==
    LET t == packet_count_26
        dynamic == flight_mode_26
                   /\ p.FLIGHT_STATE \in {"ASCENT", "APOGEE", "DESCENT"}
        gyro == IF dynamic THEN uniform(-500, 500, u) ELSE uniform(-20, 20, u)
        accel == IF dynamic THEN uniform(-100, 100, u) ELSE uniform(-5, 5, u)
        accel_y == IF dynamic THEN uniform(-100, 100, u)
                   ELSE uniform(95, 105, u)
        coordinates == get_gps_coordinates(flight_mode_26, t, u)
        active == flight_mode_26 /\ t > 5 /\ t < 75
        roll == IF active THEN uniform(-450, 450, u) ELSE uniform(-20, 20, u)
        pitch == IF active THEN uniform(-300, 300, u) ELSE uniform(-20, 20, u)
    IN  JoinComma(<< p.TEAM_ID, get_mission_time(u), NatText(p.PACKET_COUNT),
                     p.MODE, p.FLIGHT_STATE,
                     FloatText(altitude, 1),
                     FloatText(uniform(50, 350, u), 1),
                     FloatText(uniform(850, 1030, u), 1),
                     FloatText(uniform(35, 42, u), 1),
                     FloatText(uniform(10, 50, u), 2),
                     FloatText(gyro, 1), FloatText(gyro, 1),
                     FloatText(gyro, 1),
                     FloatText(accel, 1), FloatText(accel, 1),
                     FloatText(accel_y, 1),
                     get_mission_time(u),
                     FloatText(altitude + uniform(-100, 100, u), 1),
                     FloatText(coordinates[1], 6),
                     FloatText(coordinates[2], 6),
                     NatText(uniform(4, 12, u)),
                     p.CMD_ECHO,
                     "",
                     FloatText(roll, 1), FloatText(pitch, 1),
                     FloatText(uniform(0, 3600, u), 1),
                     FloatText(uniform(-150, 150, u), 1),
                     get_pg_state(flight_mode_26, t),
                     FloatText(uniform(0, 10000, u), 1),
                     FloatText(altitude + uniform(-50, 50, u), 1) >>, 1)

\* the line handed to port.write by send_telemetry (TEXT), next to the
\* fields it was built from
send_telemetry(p, u, altitude) ==
    [ TEAM_ID      |-> p.TEAM_ID,
      PACKET_COUNT |-> p.PACKET_COUNT,
      MODE         |-> p.MODE,
      FLIGHT_STATE |-> p.FLIGHT_STATE,
      CMD_ECHO     |-> p.CMD_ECHO,
      ALTITUDE     |-> altitude,
      TEXT         |-> csv_line(p, u, altitude) ]

\* the auto-stop test of run, evaluated after send_telemetry has counted
\* the packet
landing_reached(fm, count) ==
    fm /\ get_flight_state(fm, count) = "LANDED" /\ count > 80

\* second half of one iteration of run's loop: send_telemetry, then the
\* auto-stop test. port.write is not guarded: when it raises, the exception
\* leaves send_telemetry before the packet is counted and leaves run (which
\* handles KeyboardInterrupt only), the port is closed and the program ends.
run_loop ==
    /\ script = "cansat_simulation_2026"
    /\ pc = "transmit"
    /\ data' = ""
    /\ UNCHANGED <<script, vars_sim, vars_cs, vars_fn>>
    /\ IF telemetry_enabled
       THEN /\ packet_count_26 < MaxPacket
            /\ tick' = TRUE
            /\ \E written \in BOOLEAN :
                 IF written
                 THEN /\ \E u \in Draws :
                         \E altitude \in get_flight_altitude(
                                            flight_mode_26, packet_count_26, u) :
                            out' = <<send_telemetry(generate_telemetry, u,
                                                    altitude)>>
                      /\ write_error' = FALSE
                      /\ packet_count_26' = packet_count_26 + 1
                      /\ IF landing_reached(flight_mode_26, packet_count_26 + 1)
                         THEN /\ telemetry_enabled' = FALSE
                              /\ flight_mode_26' = FALSE
                         ELSE UNCHANGED <<telemetry_enabled, flight_mode_26>>
                      /\ UNCHANGED <<simulation_enabled, cmd_echo_26>>
                      /\ pc' = "receive"
                 ELSE /\ out' = <<>>
                      /\ write_error' = TRUE
                      /\ UNCHANGED vars_26
                      /\ pc' = "stopped"
       ELSE /\ out' = <<>>
            /\ tick' = FALSE
            /\ write_error' = FALSE
            /\ UNCHANGED vars_26
            /\ pc' = "receive"

run == run_loop /\ UNCHANGED <<vars_hist, out_26>>

\* nothing written yet, nothing received
NoHistory ==
    [ prev |-> <<>>, cmd |-> "", reset |-> FALSE, grounded |-> TRUE,
      lost |-> 0, flying |-> FALSE, flown |-> FALSE ]

\* ------------------------------------------------------------------------
\* Specification
\* ------------------------------------------------------------------------
\* the state after __init__ and before the first iteration of the loop
InitLoop ==
    /\ script \in Scripts
    /\ pc = "receive"
    /\ data = ""
    /\ out = <<>>
    /\ tick = FALSE
    /\ write_error = FALSE
    /\ telemetry_on = FALSE
    /\ flight_mode = FALSE
    /\ simulation_mode = FALSE
    /\ packet_count = 0
    /\ state = "LAUNCH_PAD"
    /\ cmd_echo = "CXON"
    /\ telemetry_enabled = FALSE
    /\ flight_mode_26 = FALSE
    /\ simulation_enabled = FALSE
    /\ packet_count_26 = 0
    /\ cmd_echo_26 = "CXON"
    /\ data_str = <<>>
    /\ cs_sim = <<>>
    /\ cs_gen = <<>>
    /\ gps = <<>>
    /\ MISSION_YEAR = 2026
    /\ config = <<>>
    /\ i_csv = 0
    /\ row = <<>>
    /\ raised = FALSE
    /\ hist = NoHistory
    /\ out_26 = <<>>

Init == InitLoop /\ station = "any"

Next ==
    \/ receive_data
    \/ start
    \/ check_commands
    \/ run

Spec == Init /\ [][Next]_vars

\* ------------------------------------------------------------------------
\* The checksum code on its own: two lines are chosen, then each program's
\* checksum code runs on both
\* ------------------------------------------------------------------------
GoldenLine == "3121,12:00:00,0,F,LAUNCH_PAD,"

\* chars repeated up to length n
RECURSIVE Padded(_, _)
Padded(chars, n) ==
    IF Len(chars) >= n THEN SubSeq(chars, 1, n)
    ELSE Padded(chars \o chars, n)

\* lines of 29, 149, 150, 199 and 200 characters, and one ending in a null
\* character
LineHeads ==
    { Codes(GoldenLine),
      Padded(Codes(GoldenLine), SumLimitGenerator - 1),
      Padded(Codes(GoldenLine), SumLimitGenerator),
      Padded(Codes(GoldenLine), SumLimit - 1),
      Padded(Codes(GoldenLine), SumLimit),
      Codes("3121,") \o <<0>> }

LineTails == { <<>>, Codes("7"), Codes("42,"), <<0>> \o Codes("9") }

ChecksumLines == { h \o t : h \in LineHeads, t \in LineTails }

\* lines 305-309 of cansat_simulation.py applied to both lines
checksum_simulation ==
    /\ cs_sim = <<>>
    /\ cs_sim' = [k \in 1..2 |-> checksum_log(buatcs(data_str[k]))]
    /\ UNCHANGED <<data_str, cs_gen>>
    /\ UNCHANGED <<script, pc, data, out, tick, write_error, vars_sim,
                   vars_26, vars_fn>>
    /\ UNCHANGED <<vars_hist, out_26>>

\* lines 147-151 of telemetry_generator.py applied to both lines
checksum_generator ==
    /\ cs_gen = <<>>
    /\ cs_gen' = [k \in 1..2 |-> checksum_log(buatcs_generator(data_str[k]))]
    /\ UNCHANGED <<data_str, cs_sim>>
    /\ UNCHANGED <<script, pc, data, out, tick, write_error, vars_sim,
                   vars_26, vars_fn>>
    /\ UNCHANGED <<vars_hist, out_26>>

InitChecksum ==
    /\ data_str \in ChecksumLines \X ChecksumLines
    /\ cs_sim = <<>>
    /\ cs_gen = <<>>
    /\ script = "cansat_simulation"
    /\ pc = "receive"
    /\ data = ""
    /\ out = <<>>
    /\ tick = FALSE
    /\ write_error = FALSE
    /\ telemetry_on = FALSE
    /\ flight_mode = FALSE
    /\ simulation_mode = FALSE
    /\ packet_count = 0
    /\ state = "LAUNCH_PAD"
    /\ cmd_echo = "CXON"
    /\ telemetry_enabled = FALSE
    /\ flight_mode_26 = FALSE
    /\ simulation_enabled = FALSE
    /\ packet_count_26 = 0
    /\ cmd_echo_26 = "CXON"
    /\ gps = <<>>
    /\ MISSION_YEAR = 2026
    /\ config = <<>>
    /\ i_csv = 0
    /\ row = <<>>
    /\ raised = FALSE
    /\ station = "any"
    /\ hist = NoHistory
    /\ out_26 = <<>>

NextChecksum ==
    \/ checksum_simulation
    \/ checksum_generator

SpecChecksum == InitChecksum /\ [][NextChecksum]_vars

\* ------------------------------------------------------------------------
\* The GPS code on its own: one call of random_coordinates or of
\* get_gps_coordinates for any flight mode and packet count
\* ------------------------------------------------------------------------
GpsMaxCount == 120

\* lines 169-184 of cansat_simulation.py
call_random_coordinates ==
    /\ script = "cansat_simulation"
    /\ gps = <<>>
    /\ \E u \in Draws :
          gps' = [ radius |-> radius(flight_mode, packet_count),
                   offset |-> uniform(0, radius(flight_mode, packet_count), u),
                   lat |-> random_coordinates(flight_mode, packet_count, u)[1] ]
    /\ UNCHANGED <<script, pc, data, out, tick, write_error, vars_sim,
                   vars_26, vars_cs, vars_gen>>
    /\ UNCHANGED <<vars_hist, out_26>>

\* lines 152-168 of cansat_simulation_2026.py
call_get_gps_coordinates ==
    /\ script = "cansat_simulation_2026"
    /\ gps = <<>>
    /\ \E u \in Draws :
          gps' = [ radius |-> radius_26(flight_mode_26, packet_count_26),
                   offset |-> uniform(0, radius_26(flight_mode_26,
                                                   packet_count_26), u),
                   lat |-> get_gps_coordinates(flight_mode_26,
                                               packet_count_26, u)[1] ]
    /\ UNCHANGED <<script, pc, data, out, tick, write_error, vars_sim,
                   vars_26, vars_cs, vars_gen>>
    /\ UNCHANGED <<vars_hist, out_26>>

InitGps ==
    /\ script \in Scripts
    /\ \E fm \in BOOLEAN, t \in 0..GpsMaxCount :
          /\ flight_mode = (fm /\ script = "cansat_simulation")
          /\ packet_count = (IF script = "cansat_simulation" THEN t ELSE 0)
          /\ flight_mode_26 = (fm /\ script = "cansat_simulation_2026")
          /\ packet_count_26 =
                (IF script = "cansat_simulation_2026" THEN t ELSE 0)
    /\ gps = <<>>
    /\ pc = "receive"
    /\ data = ""
    /\ out = <<>>
    /\ tick = FALSE
    /\ write_error = FALSE
    /\ telemetry_on = flight_mode
    /\ simulation_mode = FALSE
    /\ state = "LAUNCH_PAD"
    /\ cmd_echo = "CXON"
    /\ telemetry_enabled = flight_mode_26
    /\ simulation_enabled = FALSE
    /\ cmd_echo_26 = "CXON"
    /\ data_str = <<>>
    /\ cs_sim = <<>>
    /\ cs_gen = <<>>
    /\ MISSION_YEAR = 2026
    /\ config = <<>>
    /\ i_csv = 0
    /\ row = <<>>
    /\ raised = FALSE
    /\ station = "any"
    /\ hist = NoHistory
    /\ out_26 = <<>>

NextGps ==
    \/ call_random_coordinates
    \/ call_get_gps_coordinates

SpecGps == InitGps /\ [][NextGps]_vars

\* ------------------------------------------------------------------------
\* constants.py and the generation loop of telemetry_generator.py
\* ------------------------------------------------------------------------
\* the dictionary of load_constants: team, phases and altitude ranges (in
\* tenths of a metre) per year
constants ==
    (2025 :> [ TEAM_ID |-> "3121",
               STATES |-> <<"LAUNCH_PAD", "ASCENT", "APOGEE", "DESCENT",
                            "PROBE_RELEASE", "LANDED">>,
               altitude_values |->
                   [ LAUNCH_PAD    |-> <<0, 1>>,
                     ASCENT        |-> <<100, 10000>>,
                     APOGEE        |-> <<10000, 11000>>,
                     DESCENT       |-> <<5000, 10000>>,
                     PROBE_RELEASE |-> <<500, 5000>>,
                     LANDED        |-> <<0, 1>> ] ])
    @@
    (2026 :> [ TEAM_ID |-> "1001",
               STATES |-> <<"LAUNCH_PAD", "ASCENT", "APOGEE", "DESCENT",
                            "PROBE_RELEASE", "LANDED">>,
               altitude_values |->
                   [ LAUNCH_PAD    |-> <<0, 1>>,
                     ASCENT        |-> <<100, 12000>>,
                     APOGEE        |-> <<10000, 12000>>,
                     DESCENT       |-> <<5000, 12000>>,
                     PROBE_RELEASE |-> <<500, 6000>>,
                     LANDED        |-> <<0, 1>> ] ])

\* load_constants that falls back to the latest year
load_constants_latest(year) ==
    IF year \in DOMAIN constants THEN constants[year] ELSE constants[2026]

\* return constants.get(year, constants[2025])
load_constants(year) ==
    IF year \in DOMAIN constants THEN constants[year] ELSE constants[2025]

PACKET_COUNT_TOTAL == 55

\* the years a generator may be configured with
Years == 2024..2027

\* config = load_constants(MISSION_YEAR)
load ==
    /\ config = <<>>
    /\ config' = load_constants(MISSION_YEAR)
    /\ UNCHANGED <<MISSION_YEAR, i_csv, row, raised>>
    /\ UNCHANGED <<script, pc, data, out, tick, write_error, vars_sim,
                   vars_26, vars_cs, gps>>
    /\ UNCHANGED <<vars_hist, out_26>>

\* one iteration of the loop of generate_telemetry: the phase of the row
\* and its altitude
generate_telemetry_csv ==
    /\ config # <<>>
    /\ ~raised
    /\ i_csv < PACKET_COUNT_TOTAL
    /\ LET last == Len(config.STATES) - 1
           index == IF i_csv \div 10 < last THEN i_csv \div 10 ELSE last
           st == config.STATES[index + 1]
       IN  IF st \in DOMAIN config.altitude_values
           THEN /\ \E u \in Draws :
                      row' = [ STATE |-> st,
                               PACKET_COUNT |-> i_csv + 1,
                               ALTITUDE |->
                                   uniform(config.altitude_values[st][1],
                                           config.altitude_values[st][2], u) ]
                /\ i_csv' = i_csv + 1
                /\ UNCHANGED raised
           ELSE /\ raised' = TRUE
                /\ UNCHANGED <<i_csv, row>>
    /\ UNCHANGED <<MISSION_YEAR, config>>
    /\ UNCHANGED <<script, pc, data, out, tick, write_error, vars_sim,
                   vars_26, vars_cs, gps>>
    /\ UNCHANGED <<vars_hist, out_26>>

InitProfile ==
    /\ MISSION_YEAR \in Years
    /\ config = <<>>
    /\ i_csv = 0
    /\ row = <<>>
    /\ raised = FALSE
    /\ station = "any"
    /\ hist = NoHistory
    /\ out_26 = <<>>
    /\ gps = <<>>
    /\ script = "cansat_simulation"
    /\ pc = "receive"
    /\ data = ""
    /\ out = <<>>
    /\ tick = FALSE
    /\ write_error = FALSE
    /\ telemetry_on = FALSE
    /\ flight_mode = FALSE
    /\ simulation_mode = FALSE
    /\ packet_count = 0
    /\ state = "LAUNCH_PAD"
    /\ cmd_echo = "CXON"
    /\ telemetry_enabled = FALSE
    /\ flight_mode_26 = FALSE
    /\ simulation_enabled = FALSE
    /\ packet_count_26 = 0
    /\ cmd_echo_26 = "CXON"
    /\ data_str = <<>>
    /\ cs_sim = <<>>
    /\ cs_gen = <<>>

NextProfile ==
    \/ load
    \/ generate_telemetry_csv

SpecProfile == InitProfile /\ [][NextProfile]_vars

TypeOK ==
    /\ script \in Scripts \cup {"both"}
    /\ pc \in {"receive", "transmit", "stopped"}
    /\ write_error \in BOOLEAN
    /\ packet_count \in 0..MaxPacket
    /\ packet_count_26 \in 0..MaxPacket
    /\ Len(out) <= 1

\* ------------------------------------------------------------------------
\* Properties
\* ------------------------------------------------------------------------
Sim == script = "cansat_simulation"
Sim26 == script = "cansat_simulation_2026"

\* the non-empty lines a receive step can hand to the dispatcher, and how
\* each one reads: its fields, its keyword and first argument as
\* cansat_simulation.py normalises them (stripped, upper-cased) and as
\* cansat_simulation_2026.py does (upper-cased), and its stripped fields from
\* the keyword on, joined
LinesRead == {Strip(l) : l \in InputLines} \ {""}

Reading ==
    [ d \in LinesRead |->
        LET f == Split(d) IN
        [ fields   |-> f,
          key_sim  |-> IF Len(f) >= 3 THEN Upper(Strip(f[3])) ELSE "",
          arg_sim  |-> IF Len(f) >= 4 THEN Upper(Strip(f[4])) ELSE "",
          key_26   |-> IF Len(f) >= 3 THEN Upper(f[3]) ELSE "",
          arg_26   |-> IF Len(f) >= 4 THEN Upper(f[4]) ELSE "",
          joined   |-> JoinStripped(f, 3) ] ]

\* the fields of the line that the receive step of this iteration read
Fields == Reading[data].fields

\* the line just read reached the keyword dispatch of the running script
Dispatched ==
    /\ pc = "transmit"
    /\ data # ""
    /\ Len(Fields) >= 3
    /\ Sim26 => Fields[1] = "CMD"

\* the keyword (and first argument) as the running script reads them
Keyword == IF Sim THEN Reading[data].key_sim ELSE Reading[data].key_26
Argument == IF Sim THEN Reading[data].arg_sim ELSE Reading[data].arg_26

DispatchedFLY == Dispatched /\ Keyword = "FLY"
DispatchedCAL == Dispatched /\ Keyword = "CAL"
DispatchedCXON == Dispatched /\ Keyword = "CX" /\ Argument = "ON"
DispatchedCXOFF == Dispatched /\ Keyword = "CX" /\ Argument = "OFF"

PhaseIndex(s) == CHOOSE i \in 1..Len(STATES) : STATES[i] = s

\* C1: a transmission tick of cansat_simulation.py entered with flight_mode
\* true and packet_count > 80 clears flight_mode and telemetry_on, writes no
\* record and leaves packet_count alone (the state is LANDED), and a tick
\* clears flight mode only when packet_count is above 80.  In
\* cansat_simulation_2026.py no tick is entered in that state: the tick that
\* counts packet 80 ends the flight itself, so flight mode is never on with
\* packet_count above 80, and there too it is cleared only above 80.
C1_AutoStop ==
    [][ /\ (tick' /\ flight_mode /\ packet_count > 80)
            => /\ ~flight_mode'
               /\ ~telemetry_on'
               /\ out' = <<>>
               /\ packet_count' = packet_count
               /\ state' = "LANDED"
        /\ (tick' /\ flight_mode /\ ~flight_mode') => packet_count > 80
        /\ flight_mode_26' => packet_count_26' <= 80
        /\ (tick' /\ flight_mode_26 /\ ~flight_mode_26')
            => packet_count_26' > 80
      ]_vars

C1_Witness ==
    /\ Sim /\ pc = "receive" /\ tick
    /\ ~flight_mode /\ ~telemetry_on
    /\ packet_count = 81 /\ state = "LANDED" /\ out = <<>>

\* C2: right after a FLY or a CX,ON command was dispatched, packet_count
\* is 0.
C2_ResetOnStart ==
    (DispatchedFLY \/ DispatchedCXON)
        => (packet_count = 0 /\ packet_count_26 = 0)

C2_Witness ==
    /\ Sim /\ DispatchedFLY /\ state = "DESCENT" /\ packet_count = 0

\* C3: packet_count is a natural number; a step adds 1 to it exactly when it
\* built a record and went on (the record was written, or the failure of the
\* write was caught), sets it to 0 when it dispatched CAL, FLY or CX,ON, and
\* otherwise leaves it unchanged.
C3_Resets == DispatchedCAL \/ DispatchedFLY \/ DispatchedCXON

C3_Count(old, new) ==
    /\ new \in Nat
    /\ out' # <<>> => new = old + 1
    /\ C3_Resets' => new = 0
    /\ (out' = <<>> /\ ~C3_Resets') =>
          new = (IF Sim /\ write_error' THEN old + 1 ELSE old)

C3_PacketCount ==
    [][ /\ Sim => /\ C3_Count(packet_count, packet_count')
                  /\ UNCHANGED packet_count_26
        /\ Sim26 => /\ C3_Count(packet_count_26, packet_count_26')
                    /\ UNCHANGED packet_count ]_vars

C3_Witness ==
    /\ Sim /\ DispatchedCAL /\ state = "APOGEE" /\ flight_mode
    /\ packet_count = 0

\* C4: during a flight the phase is non-decreasing in packet_count (in the
\* order of STATES), is LANDED for every packet_count above 75, and every
\* phase of STATES is selected by some packet_count.
C4_MonotoneFor(count, phase(_)) ==
    /\ \A p \in 0..count : PhaseIndex(phase(p)) <= PhaseIndex(phase(count))
    /\ count > 75 => phase(count) = "LANDED"
    /\ \A i \in 1..Len(STATES) : \E p \in 0..MaxPacket : phase(p) = STATES[i]

C4_PhaseMonotone ==
    /\ C4_MonotoneFor(packet_count, LAMBDA p : update_flight_state(TRUE, p))
    /\ C4_MonotoneFor(packet_count_26, LAMBDA p : get_flight_state(TRUE, p))

C4_Witness ==
    /\ Sim /\ flight_mode /\ state = "LANDED" /\ packet_count = 77
    /\ out # <<>>

\* C5: a record written while flight mode is off has MODE S and STATE
\* LAUNCH_PAD whatever packet_count is; a record written while flight mode
\* is on has MODE F.
C5_Record(fm) ==
    out' # <<>> =>
        IF fm THEN out'[1].MODE = "F"
        ELSE out'[1].MODE = "S" /\ out'[1].FLIGHT_STATE = "LAUNCH_PAD"

C5_ModeAndPad ==
    [][ /\ Sim => C5_Record(flight_mode)
        /\ Sim26 => C5_Record(flight_mode_26) ]_vars

C5_Witness ==
    /\ Sim /\ out # <<>> /\ ~flight_mode
    /\ out[1].PACKET_COUNT = 40 /\ out[1].MODE = "S"
    /\ out[1].FLIGHT_STATE = "LAUNCH_PAD"

\* C6: a line with fewer than 3 comma-separated fields changes nothing:
\* flags, simulation mode, packet_count, phase and command echo keep their
\* values.
C6_Malformed ==
    [][ (pc = "receive" /\ data' # "" /\ Len(Fields') < 3)
            => UNCHANGED <<vars_sim, vars_26>> ]_vars

C6_Witness ==
    /\ Sim /\ pc = "transmit" /\ data = "CMD,1"
    /\ telemetry_on /\ flight_mode /\ packet_count = 12
    /\ cmd_echo = "FLY"

\* the line read by this step has at least 3 fields and its keyword is none
\* of the keywords the running script dispatches on
UnknownKeyword ==
    /\ pc = "transmit" /\ data # "" /\ Len(Fields) >= 3
    /\ Sim => Keyword \notin {"CX", "FLY", "ST", "SIM", "CAL"}
    /\ Sim26 => Keyword \notin {"CX", "FLY", "CAL", "SIM", "SET_TARGET"}

UnknownLeavesState ==
    UNCHANGED <<telemetry_on, flight_mode, simulation_mode, packet_count,
                state, telemetry_enabled, flight_mode_26,
                simulation_enabled, packet_count_26>>

\* C7 as stated: a line of at least 3 fields with an unrecognized keyword
\* sets the command echo to the raw keyword and changes nothing else.
C7_RawKeywordEcho ==
    [][ UnknownKeyword' =>
          /\ UnknownLeavesState
          /\ Sim => cmd_echo' = Fields'[3]
          /\ Sim26 => cmd_echo_26' = Fields'[3] ]_vars

\* C7 amended: a line of at least 3 fields with an unrecognized keyword
\* changes nothing but the command echo; the echo becomes the keyword and
\* its arguments, each stripped, joined without delimiter
\* (cansat_simulation.py), or the upper-cased keyword when the first field
\* is CMD and stays as it was otherwise (cansat_simulation_2026.py).
C7_UnknownEcho ==
    [][ UnknownKeyword' =>
          /\ UnknownLeavesState
          /\ Sim => cmd_echo' = Reading[data'].joined
          /\ Sim26 => cmd_echo_26' = (IF Fields'[1] = "CMD"
                                      THEN Reading[data'].key_26
                                      ELSE cmd_echo_26) ]_vars

C7_Witness ==
    /\ Sim /\ pc = "transmit" /\ data = "CMD,1,MEC,WIRE,ON"
    /\ cmd_echo = "MECWIREON"
    /\ telemetry_on /\ flight_mode /\ packet_count = 7

\* C8: a CX,ON command sets telemetry on and packet_count to 0 and leaves
\* flight mode and simulation mode as they were, also during a flight.
C8_CxOnEffect ==
    [][ DispatchedCXON' =>
          /\ Sim => /\ telemetry_on' /\ packet_count' = 0
                    /\ UNCHANGED <<flight_mode, simulation_mode>>
          /\ Sim26 => /\ telemetry_enabled' /\ packet_count_26' = 0
                      /\ UNCHANGED <<flight_mode_26, simulation_enabled>>
      ]_vars

\* C9: a CX,OFF command clears telemetry and flight mode and leaves
\* packet_count and simulation mode as they were.
C9_CxOffEffect ==
    [][ DispatchedCXOFF' =>
          /\ ~telemetry_on' /\ ~flight_mode'
          /\ ~telemetry_enabled' /\ ~flight_mode_26'
          /\ UNCHANGED <<packet_count, simulation_mode, packet_count_26,
                         simulation_enabled>> ]_vars

C9_Witness ==
    /\ Sim /\ DispatchedCXOFF /\ state = "ASCENT" /\ packet_count = 9
    /\ simulation_mode /\ ~telemetry_on /\ ~flight_mode

\* C10: a FLY command leaves telemetry on, flight mode on and packet_count
\* 0 whatever the state before; flight mode turns on in no other step, so
\* packet_count is 0 whenever flight mode goes from off to on.
C10_Fly ==
    [][ /\ DispatchedFLY' =>
            /\ Sim => telemetry_on' /\ flight_mode' /\ packet_count' = 0
            /\ Sim26 => /\ telemetry_enabled' /\ flight_mode_26'
                        /\ packet_count_26' = 0
        /\ (~flight_mode /\ flight_mode')
            => DispatchedFLY' /\ packet_count' = 0
        /\ (~flight_mode_26 /\ flight_mode_26')
            => DispatchedFLY' /\ packet_count_26' = 0 ]_vars

C10_Witness ==
    /\ Sim26 /\ DispatchedFLY /\ cmd_echo_26 = "FLY"
    /\ telemetry_enabled /\ flight_mode_26 /\ packet_count_26 = 0

\* C11: a CAL command sets packet_count to 0 and leaves telemetry, flight
\* mode and simulation mode as they were.
C11_CalEffect ==
    [][ DispatchedCAL' =>
          /\ Sim => /\ packet_count' = 0
                    /\ UNCHANGED <<telemetry_on, flight_mode, simulation_mode>>
          /\ Sim26 => /\ packet_count_26' = 0
                      /\ UNCHANGED <<telemetry_enabled, flight_mode_26,
                                     simulation_enabled>> ]_vars

C11_Witness ==
    /\ Sim26 /\ DispatchedCAL /\ cmd_echo_26 = "CAL"
    /\ telemetry_enabled /\ flight_mode_26 /\ simulation_enabled
    /\ packet_count_26 = 0

DispatchedSIM == Dispatched /\ Keyword = "SIM"

\* C12: simulation mode is on after SIM,ENABLE, off after SIM,DISABLE and is
\* changed by nothing else (not by SIM,ACTIVATE, another command or a tick),
\* so it is on exactly when the latest of those two commands was ENABLE; a
\* SIM command changes neither telemetry, flight mode, packet_count nor the
\* phase.
C12_SimMode(old, new) ==
    new = (IF DispatchedSIM' /\ Argument' = "ENABLE" THEN TRUE
           ELSE IF DispatchedSIM' /\ Argument' = "DISABLE" THEN FALSE
           ELSE old)

C12_SimulationMode ==
    [][ /\ Sim => C12_SimMode(simulation_mode, simulation_mode')
        /\ Sim26 => C12_SimMode(simulation_enabled, simulation_enabled')
        /\ DispatchedSIM' =>
             UNCHANGED <<telemetry_on, flight_mode, packet_count, state,
                         telemetry_enabled, flight_mode_26, packet_count_26>>
      ]_vars

C12_Witness ==
    /\ Sim /\ pc = "transmit" /\ data = "CMD,1,SIM,ACTIVATE"
    /\ cmd_echo = "SIMACTIVATE" /\ ~simulation_mode
    /\ telemetry_on /\ flight_mode /\ packet_count = 3

\* C13: the ST and MEC commands, with any argument, leave telemetry, flight
\* mode, simulation mode, packet_count and the phase as they were.
C13_Informational ==
    [][ (Dispatched' /\ Keyword' \in {"ST", "MEC"}) =>
          UNCHANGED <<telemetry_on, flight_mode, simulation_mode,
                      packet_count, state, telemetry_enabled, flight_mode_26,
                      simulation_enabled, packet_count_26>> ]_vars

C13_Witness ==
    /\ Sim /\ pc = "transmit" /\ data = "CMD,1,ST,12:00:00"
    /\ cmd_echo = "ST12:00:00"
    /\ telemetry_on /\ flight_mode /\ simulation_mode /\ packet_count = 33

NoComma(s) == \A i \in 1..Len(s) : SubSeq(s, i, i) # ","

\* C14: the command echo never contains a comma; in cansat_simulation.py it
\* is, after a dispatch, the keyword and the argument(s) of that line run
\* together.
C14_EchoNoComma ==
    /\ NoComma(cmd_echo)
    /\ NoComma(cmd_echo_26)
    /\ (Sim /\ Dispatched) =>
          cmd_echo = (IF Reading[data].key_sim = "CX"
                         /\ Reading[data].arg_sim # ""
                      THEN Reading[data].key_sim \o Reading[data].arg_sim
                      ELSE Reading[data].joined)

C14_Witness ==
    /\ Sim /\ pc = "transmit" /\ data = "CMD,1,SET_TARGET,1,2"
    /\ cmd_echo = "SET_TARGET12"

\* C15: the line read in an iteration is dispatched before the record of
\* that iteration is built: the record carries the echo, the packet_count
\* and the mode as the dispatch left them, and the echo changes only when a
\* line is dispatched (it is CXON until then).
C15_EchoInRecord ==
    [][ /\ (Sim /\ out' # <<>>) =>
             /\ out'[1].CMD_ECHO = cmd_echo
             /\ out'[1].PACKET_COUNT = packet_count
             /\ out'[1].MODE = (IF flight_mode THEN "F" ELSE "S")
             /\ Dispatched => out'[1].CMD_ECHO =
                                (IF Keyword = "CX" /\ Argument # ""
                                 THEN "CX" \o Argument
                                 ELSE Reading[data].joined)
             /\ DispatchedFLY =>
                  out'[1].PACKET_COUNT = 0 /\ out'[1].MODE = "F"
        /\ (Sim26 /\ out' # <<>>) =>
             /\ out'[1].CMD_ECHO = cmd_echo_26
             /\ out'[1].PACKET_COUNT = packet_count_26
             /\ out'[1].MODE = (IF flight_mode_26 THEN "F" ELSE "S")
        /\ cmd_echo' # cmd_echo => Dispatched'
        /\ cmd_echo_26' # cmd_echo_26 => Dispatched' ]_vars

C15_Witness ==
    /\ Sim /\ out # <<>> /\ out[1].CMD_ECHO = "FLY"
    /\ out[1].PACKET_COUNT = 0 /\ out[1].MODE = "F"

Computed(cs) == cs # <<>>

\* C16: the checksum is a function of the line alone and, with s the sum of
\* the character codes & 0xFFFF, b0 = s & 0xFF and b1 = (s >> 8) & 0xFF, it
\* is 255 - ((b0 + b1) mod 256), a value in 0..255; the 29-character line
\* "3121,12:00:00,0,F,LAUNCH_PAD," has sum 1695, b0 159, b1 6, checksum 90.
C16_ChecksumOf(cs) ==
    \A k \in 1..2 :
        /\ cs[k].cs1 = cs[k].cst % 256
        /\ cs[k].cs2 = (cs[k].cst \div 256) % 256
        /\ cs[k].checksum = 255 - ((cs[k].cs1 + cs[k].cs2) % 256)
        /\ cs[k].checksum \in 0..255
        /\ cs[k].cst \in 0..65535
        /\ data_str[k] = Codes(GoldenLine) =>
             /\ Len(data_str[k]) = 29
             /\ cs[k] = [cst |-> 1695, cs1 |-> 159, cs2 |-> 6, checksum |-> 90]
        /\ data_str[1] = data_str[2] => cs[1] = cs[2]

C16_Checksum ==
    /\ Computed(cs_sim) => C16_ChecksumOf(cs_sim)
    /\ Computed(cs_gen) => C16_ChecksumOf(cs_gen)

C16_Witness ==
    /\ Computed(cs_sim) /\ Computed(cs_gen)
    /\ data_str[1] = Codes(GoldenLine)
    /\ cs_sim[1].checksum = 90 /\ cs_gen[1].checksum = 90
    /\ Len(data_str[2]) = SumLimit /\ cs_sim[2].checksum # 90

\* lines a and b agree on their first n characters
SameHead(a, b, n) == Slice(a, n) = Slice(b, n)

\* lines a and b agree up to and including a null character
SameToNull(a, b) ==
    \E i \in 1..Len(a) :
        /\ i <= Len(b)
        /\ a[i] = 0
        /\ SubSeq(a, 1, i) = SubSeq(b, 1, i)

\* C17: only the first N characters of a line are summed (200 in
\* cansat_simulation.py, 150 in telemetry_generator.py) and the sum stops at
\* the first null character: two lines that agree on their first N
\* characters, or up to and including a null character, get the same sum
\* and checksum.
C17_SumCovers ==
    LET same == SameToNull(data_str[1], data_str[2]) IN
    /\ (Computed(cs_sim)
          /\ (same \/ SameHead(data_str[1], data_str[2], SumLimit)))
       => cs_sim[1] = cs_sim[2]
    /\ (Computed(cs_gen)
          /\ (same \/ SameHead(data_str[1], data_str[2], SumLimitGenerator)))
       => cs_gen[1] = cs_gen[2]

C17_Witness ==
    /\ Computed(cs_sim) /\ Computed(cs_gen)
    /\ Len(data_str[1]) = SumLimit /\ Len(data_str[2]) = SumLimit + 3
    /\ SameHead(data_str[1], data_str[2], SumLimit)
    /\ cs_sim[1] = cs_sim[2] /\ cs_gen[1] = cs_gen[2]

\* s.split(",") for a long line, by halves: the fields of s[lo..hi], the
\* last field of the left half continuing in the first of the right half
RECURSIVE SplitRange(_, _, _)
SplitRange(s, lo, hi) ==
    IF lo > hi THEN <<"">>
    ELSE IF lo = hi
    THEN IF SubSeq(s, lo, lo) = "," THEN <<"", "">> ELSE <<SubSeq(s, lo, lo)>>
    ELSE LET left == SplitRange(s, lo, (lo + hi) \div 2)
             right == SplitRange(s, (lo + hi) \div 2 + 1, hi)
         IN  SubSeq(left, 1, Len(left) - 1)
             \o <<left[Len(left)] \o right[1]>>
             \o SubSeq(right, 2, Len(right))

SplitLine(s) == SplitRange(s, 1, Len(s))

\* the names announced by the header line
HeaderNames == SplitLine(header)

\* int(text): the value of a text of decimal digits, -1 for any other text
\* (int raises ValueError)
RECURSIVE DigitsValue(_)
DigitsValue(text) ==
    IF Len(text) = 0 THEN 0
    ELSE 10 * DigitsValue(SubSeq(text, 1, Len(text) - 1))
         + (ord[SubSeq(text, Len(text), Len(text))] - 48)

IntOf(text) ==
    IF /\ Len(text) > 0
       /\ \A i \in 1..Len(text) :
             SubSeq(text, i, i) \in {Digit(d) : d \in 0..9}
    THEN DigitsValue(text)
    ELSE -1

\* the line splits into one field per announced name, the field after
\* CMD_ECHO is empty and the last field is an integer in 0..255
RoundTrip(line, names) ==
    LET fields == SplitLine(line.TEXT) IN
    /\ Len(fields) = Len(names)
    /\ \E k \in 1..(Len(fields) - 1) :
          /\ names[k] = "CMD_ECHO"
          /\ fields[k] = line.CMD_ECHO
          /\ names[k + 1] = ""
          /\ fields[k + 1] = ""
    /\ names[Len(names)] = "CHECKSUM"
    /\ IntOf(fields[Len(fields)]) \in 0..255

\* C18: every line written splits on "," into as many fields as the schema
\* of the running script announces (get_fieldnames(2026), 24 names, for
\* cansat_simulation.py; the header line for cansat_simulation_2026.py), the
\* field after CMD_ECHO is empty and the last field is the checksum, an
\* integer in 0..255.
C18_RoundTrip ==
    out # <<>> =>
        RoundTrip(out[1], IF Sim THEN get_fieldnames ELSE HeaderNames)

\* C19: a record is written only in a tick entered with telemetry enabled;
\* CX,OFF and the auto-stop disable telemetry, and only a dispatched CX,ON
\* or FLY enables it again.
C19_Enabled(enabled, flight) ==
    /\ out' # <<>> => enabled
    /\ DispatchedCXOFF' => ~enabled'
    /\ (tick' /\ flight /\ ~flight') => ~enabled'
    /\ (~enabled /\ enabled') => (DispatchedCXON' \/ DispatchedFLY')

C19_OnlyWhenEnabled ==
    [][ /\ Sim => C19_Enabled(telemetry_on, flight_mode)
        /\ Sim26 => C19_Enabled(telemetry_enabled, flight_mode_26) ]_vars

C19_Witness ==
    /\ Sim /\ pc = "receive" /\ ~tick /\ out = <<>>
    /\ ~telemetry_on /\ ~flight_mode
    /\ cmd_echo = "FLY" /\ state = "LANDED" /\ packet_count = 81

\* C20: a step whose port write fails writes nothing, keeps the flags, adds
\* 1 to packet_count and leaves the loop running (the next step reads the
\* port again).
C20_Failure(enabled, flight, simulation, count) ==
    /\ out' = <<>>
    /\ pc' = "receive"
    /\ UNCHANGED <<enabled, flight, simulation>>
    /\ count' = count + 1

C20_WriteFailure ==
    [][ write_error' =>
          /\ Sim => C20_Failure(telemetry_on, flight_mode, simulation_mode,
                                packet_count)
          /\ Sim26 => C20_Failure(telemetry_enabled, flight_mode_26,
                                  simulation_enabled, packet_count_26) ]_vars

\* the phase of the running script: the state attribute of
\* cansat_simulation.py, what get_flight_state returns in
\* cansat_simulation_2026.py
Phase ==
    IF Sim THEN state ELSE get_flight_state(flight_mode_26, packet_count_26)

Phases == {STATES[i] : i \in 1..Len(STATES)}

\* the state after construction: packet_count 0, the first phase, telemetry
\* off and flight mode off
C21_Start ==
    /\ packet_count = 0 /\ packet_count_26 = 0
    /\ Phase = STATES[1]
    /\ ~telemetry_on /\ ~telemetry_enabled
    /\ ~flight_mode /\ ~flight_mode_26

\* C21: the simulator starts with packet_count 0, the first phase
\* (LAUNCH_PAD), telemetry off and flight mode off, and in every reachable
\* state the phase is one of STATES.
C21_StartAndPhase == C21_Start /\ [](Phase \in Phases)

C21_Witness ==
    /\ Sim /\ flight_mode /\ state = "PAYLOAD_RELEASE" /\ packet_count = 72
    /\ pc = "receive" /\ out # <<>>

\* C23: the ALTITUDE of every record written by cansat_simulation.py lies
\* in the range that altitude_values of its profile gives for the STATE of
\* the record.
C23_AltitudeInRange ==
    (Sim /\ out # <<>>) =>
        /\ altitude_values[out[1].FLIGHT_STATE][1] <= out[1].ALTITUDE
        /\ out[1].ALTITUDE <= altitude_values[out[1].FLIGHT_STATE][2]

\* C30: the sum truncated at 150 characters (telemetry_generator.py) and
\* the sum truncated at 200 characters (cansat_simulation.py) give the same
\* 16-bit sum and the same checksum byte for every line of at most 150
\* characters; the two differ only on lines longer than that.
C30_SameUpTo150 ==
    (Computed(cs_sim) /\ Computed(cs_gen)) =>
        \A k \in 1..2 :
            /\ Len(data_str[k]) <= SumLimitGenerator => cs_sim[k] = cs_gen[k]
            /\ cs_sim[k] # cs_gen[k] => Len(data_str[k]) > SumLimitGenerator

C30_Witness ==
    /\ Computed(cs_sim) /\ Computed(cs_gen)
    /\ Len(data_str[1]) = SumLimitGenerator
    /\ cs_sim[1] = cs_gen[1]
    /\ Len(data_str[2]) = SumLimitGenerator + 1
    /\ cs_sim[2].cst # cs_gen[2].cst

\* C27: in every reachable state of either script, flight mode on implies
\* telemetry on: FLY turns both on, CX,OFF and the end of the flight turn
\* both off.
C27_FlightImpliesTelemetry ==
    /\ flight_mode => telemetry_on
    /\ flight_mode_26 => telemetry_enabled

C27_Witness ==
    /\ Sim26 /\ DispatchedCXON /\ flight_mode_26 /\ telemetry_enabled
    /\ packet_count_26 = 0

\* the flight mode and packet count a call of the GPS code read
GpsFlight == IF Sim THEN flight_mode ELSE flight_mode_26
GpsCount == IF Sim THEN packet_count ELSE packet_count_26

\* a length in millimetres in the unit of gps.radius: millimetres for
\* cansat_simulation.py, 1e-6 degrees (111 mm, rounded) for
\* cansat_simulation_2026.py
GpsUnits(mm) == IF Sim THEN mm ELSE (2 * mm + 111) \div 222

\* 2.0 km * min(t / 100, 1)
DriftRadius(t) == (2000000 * (IF t < 100 THEN t ELSE 100)) \div 100

\* what C26 says of one call with the radius `grounded` on the ground
C26_RadiusWith(grounded) ==
    gps # <<>> =>
        /\ gps.radius = IF GpsFlight THEN GpsUnits(DriftRadius(GpsCount))
                        ELSE grounded
        /\ GpsFlight =>
             /\ GpsCount > 0 =>
                  GpsUnits(DriftRadius(GpsCount - 1)) <= gps.radius
             /\ gps.radius <= GpsUnits(2000000)
        /\ 0 <= gps.offset /\ gps.offset <= gps.radius
        /\ IF Sim
           THEN LET d == gps.lat * 11100 - BASE_LAT * 111 IN
                -(gps.radius + 5550) <= d /\ d <= gps.radius + 5550
           ELSE LET d == gps.lat - BASE_LAT IN
                -gps.radius <= d /\ d <= gps.radius

\* C26 as stated: the radius within which a fix is sampled is
\* 2.0 km * min(packet_count / 100, 1) in flight, so it does not decrease
\* with packet_count and never exceeds 2.0 km, and it is 0.1 km on the
\* ground; the sampled offset lies in [0, radius].
C26_RadiusStated == C26_RadiusWith(GpsUnits(100000))

\* C26: as above, the radius on the ground being 0.1 km in
\* cansat_simulation.py and 0.0001 degrees (about 0.011 km) in
\* cansat_simulation_2026.py.
C26_Radius == C26_RadiusWith(IF Sim THEN 100000 ELSE 100)

C26_Witness ==
    /\ Sim26 /\ gps # <<>> /\ flight_mode_26 /\ packet_count_26 = 101
    /\ gps.radius = 18018 /\ gps.offset = gps.radius

C26_WitnessGround ==
    /\ Sim26 /\ gps # <<>> /\ ~flight_mode_26 /\ gps.radius = 100

\* C24: a year that is not configured does not make load_constants fail:
\* it returns the default profile (2025); and in every configured profile
\* each phase of STATES has an entry in altitude_values, so the lookup of
\* the range of a row's phase never raises.
C24_DefaultProfile ==
    /\ \A year \in DOMAIN constants :
          \A k \in 1..Len(constants[year].STATES) :
              constants[year].STATES[k]
                  \in DOMAIN constants[year].altitude_values
    /\ config # <<>> =>
          /\ \E year \in DOMAIN constants : config = constants[year]
          /\ MISSION_YEAR \notin DOMAIN constants => config = constants[2025]
    /\ ~raised
    /\ row # <<>> =>
          /\ row.STATE \in DOMAIN config.altitude_values
          /\ config.altitude_values[row.STATE][1] <= row.ALTITUDE
          /\ row.ALTITUDE <= config.altitude_values[row.STATE][2]

C24_Witness ==
    /\ MISSION_YEAR = 2027
    /\ config # <<>> /\ config.TEAM_ID = "3121"
    /\ i_csv = PACKET_COUNT_TOTAL
    /\ row # <<>> /\ row.STATE = "LANDED" /\ row.PACKET_COUNT = 55

\* ------------------------------------------------------------------------
\* A run as seen from the port: the last record written and what happened
\* since it was written
\* ------------------------------------------------------------------------
FlightActive == IF Sim THEN flight_mode ELSE flight_mode_26
TelemetryOn == IF Sim THEN telemetry_on ELSE telemetry_enabled

\* the lines of a station that sends any of the flight commands
HistoryLines ==
    { "CMD,1,CX,ON", "CMD,1,CX,OFF", "CMD,1,FLY", "CMD,1,CAL", "CMD,1,ST,GPS" }

\* the lines the station may send now
StationLines ==
    IF station = "any" THEN HistoryLines
    ELSE IF hist.flown THEN {}
    ELSE {"CMD,1,CX,ON", "CMD,1,FLY"}

\* the command just dispatched, as one word
CommandName == IF Keyword = "CX" THEN Keyword \o Argument ELSE Keyword

\* the commands that set packet_count to 0
ResetCommands == {"CXON", "FLY", "CAL"}

\* write failures followed between two records
MaxLost == 1

\* hist after the receive half of an iteration: cmd is the command
\* dispatched since the last record, "several" if there is more than one
received ==
    IF Dispatched'
    THEN hist' = [ hist EXCEPT
                     !.cmd = IF @ = "" THEN CommandName' ELSE "several",
                     !.reset = @ \/ CommandName' \in ResetCommands,
                     !.grounded = IF hist.cmd = "" THEN ~FlightActive ELSE @,
                     !.flying = @ /\ FlightActive',
                     !.flown = @ \/ CommandName' = "FLY" ]
    ELSE hist' = hist

\* hist after the transmit half of an iteration
transmitted ==
    IF out' # <<>>
    THEN hist' = [ prev |-> [ PACKET_COUNT |-> out'[1].PACKET_COUNT,
                              FLIGHT_STATE |-> out'[1].FLIGHT_STATE ],
                   cmd |-> "",
                   reset |-> FALSE,
                   grounded |-> TRUE,
                   lost |-> 0,
                   flying |-> FlightActive',
                   flown |-> hist.flown ]
    ELSE /\ write_error' => hist.lost < MaxLost
         /\ hist' = [ hist EXCEPT
                        !.lost = IF write_error' THEN @ + 1 ELSE @,
                        !.flying = @ /\ FlightActive' ]

receive_data_seen ==
    receive_data_from(StationLines) /\ received /\ UNCHANGED <<station, out_26>>

start_seen == start_loop /\ transmitted /\ UNCHANGED <<station, out_26>>

check_commands_seen ==
    /\ check_commands_from(StationLines)
    /\ received
    /\ UNCHANGED <<station, out_26>>

run_seen == run_loop /\ transmitted /\ UNCHANGED <<station, out_26>>

InitHistory == Init

NextHistory ==
    \/ receive_data_seen
    \/ start_seen
    \/ check_commands_seen
    \/ run_seen

SpecHistory == InitHistory /\ [][NextHistory]_vars

\* what C22 says of the record written by a step, lost being whether a
\* port write has failed since the command or the previous record
C22_Ordering(lost) ==
    (out' # <<>> /\ ~lost) =>
        /\ (hist.cmd = "CXON" /\ hist.grounded) =>
              /\ out'[1].PACKET_COUNT = 0
              /\ out'[1].MODE = "S"
              /\ out'[1].CMD_ECHO = "CXON"
        /\ hist.cmd = "FLY" =>
              /\ out'[1].PACKET_COUNT = 0
              /\ out'[1].MODE = "F"
        /\ (hist.cmd = "" /\ hist.prev # <<>>) =>
              out'[1].PACKET_COUNT = hist.prev.PACKET_COUNT + 1

C25_NoRegress(reset) ==
    (out' # <<>> /\ hist.prev # <<>> /\ hist.flying /\ ~reset) =>
        PhaseIndex(out'[1].FLIGHT_STATE) >= PhaseIndex(hist.prev.FLIGHT_STATE)

\* C25 as stated: while the flight mode stays on, whatever commands and
\* ticks are interleaved, the STATE of a record is the STATE of the previous
\* record or a later phase.
C25_NoRegressStated == [][C25_NoRegress(FALSE)]_vars

\* C25: as above, provided no command that sets packet_count to 0 (FLY, CAL,
\* CX,ON) is received between the two records.
C25_NoRegressNoReset == [][C25_NoRegress(hist.reset)]_vars

C25_Witness ==
    /\ Sim /\ out # <<>> /\ hist.flying
    /\ out[1].FLIGHT_STATE = "ASCENT" /\ out[1].PACKET_COUNT = 7
    /\ hist.lost = 0 /\ hist.cmd = ""

\* ------------------------------------------------------------------------
\* One flight: the station sends FLY once and nothing after it, and the
\* loop keeps running as long as the program has not ended
\* ------------------------------------------------------------------------
InitFlight == InitLoop /\ station = "fly_only"

SpecFlight ==
    /\ InitFlight
    /\ [][NextHistory]_vars
    /\ WF_vars(NextHistory)

\* ticks keep occurring: again and again the loop runs a transmission tick
\* (in cansat_simulation.py: the one-second gate opens), unless telemetry
\* is off or the program has ended
TicksGoOn == []<>(tick \/ ~TelemetryOn \/ pc = "stopped")

\* the flight is over: both flags are off and the last record written is
\* the one with PACKET_COUNT 80, in phase LANDED
FlightOver ==
    /\ ~FlightActive /\ ~TelemetryOn
    /\ hist.prev # <<>>
    /\ hist.prev.PACKET_COUNT = 80
    /\ hist.prev.FLIGHT_STATE = "LANDED"

\* a step after FLY writes the record that follows the previous one (0
\* first), in the same or a later phase, and writes nothing once both
\* flags are off
FlightRecords ==
    hist.flown =>
        /\ out' # <<>> =>
              /\ out'[1].PACKET_COUNT =
                    (IF hist.cmd # "" THEN 0 ELSE hist.prev.PACKET_COUNT + 1)
              /\ out'[1].PACKET_COUNT <= 80
              /\ out'[1].MODE = "F"
              /\ hist.cmd = "" =>
                    PhaseIndex(out'[1].FLIGHT_STATE)
                        >= PhaseIndex(hist.prev.FLIGHT_STATE)
        /\ (~FlightActive /\ ~TelemetryOn) => out' = <<>>

\* C28: after FLY, no further command arriving and ticks going on, the
\* simulator writes exactly the records with PACKET_COUNT 0, 1, ..., 80, in
\* phase order, then has flight mode and telemetry off, and writes nothing
\* after that; in both scripts.
C28_FlightEnds ==
    /\ [][FlightRecords]_vars
    /\ TicksGoOn => (hist.flown ~> FlightOver)

\* the same for the runs in which every port write succeeds
FlightEndsWritten ==
    /\ [][~write_error' => (hist.lost = 0 => FlightRecords)]_vars
    /\ (TicksGoOn /\ []~write_error) => (hist.flown ~> FlightOver)

\* ------------------------------------------------------------------------
\* Both scripts side by side: each line is handed to both command
\* dispatchers, each transmission tick is run by both
\* ------------------------------------------------------------------------
\* the command lines of the flight state machine
FlightLines == { "CMD,1,CX,ON", "CMD,1,CX,OFF", "CMD,1,FLY", "CMD,1,CAL" }

\* one line, or none, received by both scripts
receive_both ==
    /\ script = "both"
    /\ pc = "receive"
    /\ \/ /\ data' = ""
          /\ UNCHANGED <<vars_sim, vars_26>>
       \/ \E line \in FlightLines :
             /\ data' = Strip(line)
             /\ process_command(Strip(line))
             /\ process_command_26(Strip(line))
    /\ pc' = "transmit"
    /\ out' = <<>>
    /\ out_26' = <<>>
    /\ tick' = FALSE
    /\ write_error' = FALSE
    /\ UNCHANGED <<script, vars_cs, vars_fn, vars_hist>>

\* transmit_telemetry of cansat_simulation.py past the one-second gate, the
\* write succeeding: the fields of the packet, without its sensor values
transmit_telemetry_fields ==
    LET st == update_flight_state(flight_mode, packet_count) IN
    /\ state' = st
    /\ IF flight_ended(flight_mode, st, packet_count)
       THEN /\ flight_mode' = FALSE
            /\ telemetry_on' = FALSE
            /\ out' = <<>>
            /\ UNCHANGED <<packet_count, simulation_mode, cmd_echo>>
       ELSE /\ packet_count < MaxPacket
            /\ out' = <<packet(st)>>
            /\ packet_count' = packet_count + 1
            /\ UNCHANGED <<telemetry_on, flight_mode, simulation_mode,
                           cmd_echo>>

\* send_telemetry and the auto-stop test of run of
\* cansat_simulation_2026.py, the write succeeding: the fields of the line
send_telemetry_fields ==
    /\ packet_count_26 < MaxPacket
    /\ out_26' = <<generate_telemetry>>
    /\ packet_count_26' = packet_count_26 + 1
    /\ IF landing_reached(flight_mode_26, packet_count_26 + 1)
       THEN /\ telemetry_enabled' = FALSE
            /\ flight_mode_26' = FALSE
       ELSE UNCHANGED <<telemetry_enabled, flight_mode_26>>
    /\ UNCHANGED <<simulation_enabled, cmd_echo_26>>

\* one transmission tick of both loops
tick_both ==
    /\ script = "both"
    /\ pc = "transmit"
    /\ IF telemetry_on
       THEN transmit_telemetry_fields
       ELSE /\ out' = <<>>
            /\ UNCHANGED vars_sim
    /\ IF telemetry_enabled
       THEN send_telemetry_fields
       ELSE /\ out_26' = <<>>
            /\ UNCHANGED vars_26
    /\ pc' = "receive"
    /\ data' = ""
    /\ tick' = TRUE
    /\ write_error' = FALSE
    /\ UNCHANGED <<script, vars_cs, vars_fn, vars_hist>>

InitBoth ==
    /\ script = "both"
    /\ pc = "receive"
    /\ data = ""
    /\ out = <<>>
    /\ out_26 = <<>>
    /\ tick = FALSE
    /\ write_error = FALSE
    /\ telemetry_on = FALSE
    /\ flight_mode = FALSE
    /\ simulation_mode = FALSE
    /\ packet_count = 0
    /\ state = "LAUNCH_PAD"
    /\ cmd_echo = "CXON"
    /\ telemetry_enabled = FALSE
    /\ flight_mode_26 = FALSE
    /\ simulation_enabled = FALSE
    /\ packet_count_26 = 0
    /\ cmd_echo_26 = "CXON"
    /\ data_str = <<>>
    /\ cs_sim = <<>>
    /\ cs_gen = <<>>
    /\ gps = <<>>
    /\ MISSION_YEAR = 2026
    /\ config = <<>>
    /\ i_csv = 0
    /\ row = <<>>
    /\ raised = FALSE
    /\ station = "any"
    /\ hist = NoHistory

NextBoth ==
    \/ receive_both
    \/ tick_both

SpecBoth == InitBoth /\ [][NextBoth]_vars

\* PACKET_COUNT, MODE and STATE of the records in o
Triples(o) ==
    [ k \in 1..Len(o) |->
        <<o[k].PACKET_COUNT, o[k].MODE, o[k].FLIGHT_STATE>> ]

\* C29: fed the same lines CX,ON / CX,OFF / FLY / CAL and the same
\* transmission ticks, the two scripts write records with the same
\* PACKET_COUNT, MODE and STATE and hold the same telemetry flag, flight
\* mode and packet_count after each step.
C29_Interchangeable ==
    /\ telemetry_on = telemetry_enabled
    /\ flight_mode = flight_mode_26
    /\ packet_count = packet_count_26
    /\ Triples(out) = Triples(out_26)

====
